---------------------------- MODULE Spec2Model ----------------------------
(***************************************************************************)
(* Model of scripts/validate_agg_results.py (megalodon): validation of     *)
(* aggregated modified-base calls against a control sample or ground-truth *)
(* labels.                                                                 *)
(*                                                                         *)
(* Conventions.                                                            *)
(*   - Python's None is the empty tuple <<>>; a present value v is <<v>>.  *)
(*   - A contig key is <<chrm, strand>> with strand 1, -1 or NoStrand      *)
(*     (the None of STRAND_CONV).                                          *)
(*   - A percent-modified value 100*m/c is the reduced fraction <<n, d>>;  *)
(*     a NaN is <<0, 0>>.  Fractions are compared exactly.                 *)
(*   - Ground-truth lines are well formed (four fields, integer position). *)
(*   - Counts are Python ints: a division by a zero count raises           *)
(*     ZeroDivisionError.  An exception is caught nowhere and ends main.   *)
(***************************************************************************)
EXTENDS Integers, Sequences, FiniteSets, TLC

VARIABLES
    pc,          \* position of main: "start", "compare", "done", "exit1", "crashed"
    args,        \* the parsed command line, with the contents of the files it names
    mod_samp,    \* main's mod_samp (None before it is parsed)
    ctrl_samp,   \* main's ctrl_samp
    all_gt_data, \* main's all_gt_data
    idx,         \* number of comparisons of the batch already made
    report,      \* lines written to out_fp
    pages,       \* pages saved to pdf_fp
    closed,      \* pdf_fp (and out_fp) closed
    last,        \* what the latest call of compute_val_metrics did
    engine       \* the metric computation on its own: inputs and result

vars == <<pc, args, mod_samp, ctrl_samp, all_gt_data, idx, report, pages,
          closed, last, engine>>

mainVars == <<pc, args, mod_samp, ctrl_samp, all_gt_data, idx, report, pages,
              closed, last>>

---------------------------------------------------------------------------
(* Bounds of the model *)

MaxSites == 2      \* lines of one bed-methyl input
MaxThresh == 2     \* --coverage-threshold is 0..MaxThresh
MaxFiles == 2      \* files of one batch
MaxRecs == 1       \* lines of one ground-truth csv
MaxLen == 3        \* length of a value array given to the metric computation

---------------------------------------------------------------------------
(* Generic helpers *)

None == <<>>

Some(v) == <<v>>

Min(a, b) == IF a < b THEN a ELSE b

RECURSIVE GCD(_, _)
GCD(a, b) == IF b = 0 THEN a ELSE GCD(b, a % b)

\* the fraction n/d (d > 0, n >= 0) in lowest terms
Frac(n, d) == LET g == GCD(n, d) IN <<n \div g, d \div g>>

NaN == <<0, 0>>

IsNaN(x) == x[2] = 0

Less(x, y) == x[1] * y[2] < y[1] * x[2]

\* the sum of f[x] over the x of S
RECURSIVE SumOver(_, _)
SumOver(S, f) ==
    IF S = {} THEN 0
    ELSE LET x == CHOOSE y \in S : TRUE IN f[x] + SumOver(S \ {x}, f)

\* the elements of a sequence
Range(s) == {s[i] : i \in 1..Len(s)}

\* the distinct elements of a sequence in the order they first appear: the
\* iteration order of a dict filled with them as keys
RECURSIVE FirstSeen(_, _)
FirstSeen(s, seen) ==
    IF s = <<>> THEN <<>>
    ELSE IF Head(s) \in seen THEN FirstSeen(Tail(s), seen)
    ELSE <<Head(s)>> \o FirstSeen(Tail(s), seen \cup {Head(s)})

\* the elements of a finite set of integers in ascending order
RECURSIVE SortedSeq(_)
SortedSeq(S) ==
    IF S = {} THEN <<>>
    ELSE LET m == CHOOSE x \in S : \A y \in S : x <= y
         IN <<m>> \o SortedSeq(S \ {m})

\* the sequences of at most n elements of S
SeqsUpTo(S, n) == UNION {[1..k -> S] : k \in 0..n}

\* the sequences of 1..n elements of S
SeqsFrom1(S, n) == UNION {[1..k -> S] : k \in 1..n}

---------------------------------------------------------------------------
(* Module constants *)

NoStrand == 0

STRAND_CONV == [s \in {"+", "-", "."} |->
                  CASE s = "+" -> 1 [] s = "-" -> -1 [] OTHER -> NoStrand]

IS_MOD_VALS == {"true", "t", "on", "yes", "y", "1"}

\* str.lower() on the is_mod tokens the model reads
Lower(tok) == CASE tok = "Y" -> "y"
                [] tok = "True" -> "true"
                [] tok = "NO" -> "no"
                [] OTHER -> tok

---------------------------------------------------------------------------
(* Input domains *)

Chrms == {"chr1"}

Positions == {1, 2}

\* the place of a bed-methyl line: <<chrm, strand, pos>>
BedSlots == Chrms \X {"+", "-"} \X Positions

\* <<reads, modified reads>> of one line
CovPairs == {<<0, 0>>, <<1, 0>>, <<1, 1>>}

\* the counts of a line: no reads, or one read that is modified
ReadPairs == {<<0, 0>>, <<1, 1>>}

\* the bed-methyl lines <<chrm, strand, pos, reads, modified reads>> at the
\* places Slots with the counts Pairs
BedLines(Slots, Pairs) ==
    {<<s[1], s[2], s[3], c[1], c[2]>> : s \in Slots, c \in Pairs}

\* the bed-methyl inputs of at most n lines: the lines of the files named on
\* the command line, in the order they are read
BedMethylsOn(Slots, Pairs, n) == SeqsUpTo(BedLines(Slots, Pairs), n)

\* a path is <<directory, file name>>
GtPaths == {<<"in", "gt1.csv">>, <<"in", "gt2.csv">>}

VpPaths == {<<"in", "vp1.bed">>, <<"in", "vp2.bed">>}

\* an option that names files: the list of paths given (None when the
\* option is absent) and the contents of the files at these paths
NoFiles == [paths |-> <<>>, files |-> <<>>]

\* the lists of 1..n of the paths, a path possibly given more than once,
\* with every choice of contents for the files named; up to the names of
\* the paths, the first path of the list is `first`
FilesOver(Paths, first, Contents, n) ==
    UNION {{[paths |-> <<ps>>, files |-> f] : f \in [Range(ps) -> Contents]} :
             ps \in {q \in SeqsFrom1(Paths, n) : q[1] = first}}

\* the files of two options together
Merge(f, g) ==
    [p \in DOMAIN f \cup DOMAIN g |-> IF p \in DOMAIN f THEN f[p] ELSE g[p]]

StrandSymbols == {"+", "-", ".", "*"}

IsModTokens == {"Y", "no"}

StrandOffsets == {None, Some(1)}

---------------------------------------------------------------------------
(* megalodon_helper *)

\* key under which parse_bed_methyls / parse_beds store a line
StoreKey(chrm, strand, collapse) ==
    <<chrm, IF collapse THEN NoStrand ELSE STRAND_CONV[strand]>>

StorePos(strand, pos, strand_offset) ==
    IF strand_offset # None /\ strand = "-" THEN pos - strand_offset[1]
    ELSE pos

\* mh.parse_bed_methyls(bm_files, strand_offset): <<cov, mod_cov>>, each
\* contig key -> position -> count, reverse-strand lines collapsed onto the
\* forward coordinate when a strand offset is given.  The third component
\* is the order in which the two dicts iterate their keys: the order in
\* which the keys first appear in the lines.
parse_bed_methyls(bm, strand_offset) ==
    LET I == 1..Len(bm)
        key(i) == StoreKey(bm[i][1], bm[i][2], strand_offset # None)
        at(i) == StorePos(bm[i][2], bm[i][3], strand_offset)
        keys == {key(i) : i \in I}
        poss(k) == {at(i) : i \in {j \in I : key(j) = k}}
        lines(k, p) == {i \in I : key(i) = k /\ at(i) = p}
        reads == [i \in I |-> bm[i][4]]
        mods == [i \in I |-> bm[i][5]]
    IN <<[k \in keys |-> [p \in poss(k) |-> SumOver(lines(k, p), reads)]],
         [k \in keys |-> [p \in poss(k) |-> SumOver(lines(k, p), mods)]],
         FirstSeen([i \in I |-> key(i)], {})>>

\* mh.parse_beds([fn], ignore_strand): contig key -> set of positions
parse_beds(bed, ignore_strand) ==
    LET key(s) == StoreKey(s[1], s[2], ignore_strand)
        keys == {key(s) : s \in bed}
    IN [k \in keys |-> {s[3] : s \in {t \in bed : key(t) = k}}]

---------------------------------------------------------------------------
(* parse_mod_sample *)

\* the variant that keeps the positions of coverage above the threshold only
TestSitesGt(cov, mod_cov, cov_thresh) ==
    [ctg \in DOMAIN mod_cov |->
        {pos \in DOMAIN cov[ctg] : cov[ctg][pos] > cov_thresh}]

\* lines 32-35
TestSites(cov, mod_cov, cov_thresh) ==
    [ctg \in DOMAIN mod_cov |->
        {pos \in DOMAIN cov[ctg] : cov[ctg][pos] >= cov_thresh}]

\* lines 25-36.  ctgs is the order in which test_sites iterates its keys:
\* it is filled in the order of mod_cov (line 33)
parse_mod_sample(bm_files, strand_offset, cov_thresh) ==
    LET t == parse_bed_methyls(bm_files, strand_offset)
    IN [cov |-> t[1], mod_cov |-> t[2],
        test_sites |-> TestSites(t[1], t[2], cov_thresh), ctgs |-> t[3]]

---------------------------------------------------------------------------
(* parse_ground_truth_data *)

\* the variant that reads every symbol but '-' as the forward strand
convert_strand_forward(strand_str) ==
    IF strand_str = "-" THEN STRAND_CONV["-"] ELSE STRAND_CONV["+"]

\* lines 40-44: an unknown symbol is read as '.'
convert_strand(strand_str) ==
    IF strand_str \in DOMAIN STRAND_CONV THEN STRAND_CONV[strand_str]
    ELSE NoStrand

GtKey(line) == <<line[1], convert_strand(line[2])>>

GtValue(line) == <<line[3], Lower(line[4]) \in IS_MOD_VALS>>

RECURSIVE GtEntries(_, _)
GtEntries(lines, key) ==
    IF lines = <<>> THEN <<>>
    ELSE (IF GtKey(Head(lines)) = key THEN <<GtValue(Head(lines))>> ELSE <<>>)
         \o GtEntries(Tail(lines), key)

\* one csv: its dict (chrm, strand) -> list of (pos, is_mod), and the order
\* in which the dict iterates its keys
GtData(lines) ==
    [order |-> FirstSeen([i \in 1..Len(lines) |-> GtKey(lines[i])], {}),
     data |-> [k \in {GtKey(lines[i]) : i \in 1..Len(lines)} |->
                 GtEntries(lines, k)]]

\* lines 39-56: all_gt_data is a dict keyed by the path, so a path given
\* more than once has one entry, at the place of its first occurrence.  The
\* dict is the sequence of its items [gt_csv, gt_data] in iteration order;
\* files gives the contents of the file at each path.
parse_ground_truth_data(gt_csvs, files) ==
    LET fns == FirstSeen(gt_csvs, {})
    IN [i \in 1..Len(fns) |->
          [gt_csv |-> fns[i], gt_data |-> GtData(files[fns[i]])]]

---------------------------------------------------------------------------
(* compute_val_metrics: the two value arrays *)

\* the variant that keeps the contigs absent from valid_pos as they are
RestrictKeepAll(test_sites, valid_pos) ==
    [ctg \in DOMAIN test_sites |->
        IF ctg \in DOMAIN valid_pos
        THEN valid_pos[ctg] \cap test_sites[ctg] ELSE test_sites[ctg]]

\* the dict comprehension of lines 68-71 (and 72-75)
RestrictSites(test_sites, valid_pos) ==
    [ctg \in {c \in DOMAIN test_sites : c \in DOMAIN valid_pos} |->
        valid_pos[ctg] \cap test_sites[ctg]]

\* <<ctg, pos>> in the order "for ctg, ctg_poss in test_sites.items()
\* for pos in ctg_poss" visits them
RECURSIVE SiteSeq(_, _)
SiteSeq(test_sites, ctgs) ==
    IF ctgs = <<>> THEN <<>>
    ELSE LET ps == SortedSeq(test_sites[Head(ctgs)])
         IN [i \in 1..Len(ps) |-> <<Head(ctgs), ps[i]>>]
            \o SiteSeq(test_sites, Tail(ctgs))

\* ctgs is the order of the keys of the Sample's test_sites; a restricted
\* test_sites keeps the order of the keys it retains (lines 68-75)
SitesOf(ctgs, test_sites) ==
    SiteSeq(test_sites, SelectSeq(ctgs, LAMBDA c : c \in DOMAIN test_sites))

CovAt(samp, site) == samp.cov[site[1]][site[2]]

\* 100 * mod_cov[ctg][pos] / cov[ctg][pos], where cov[ctg][pos] > 0
PctMod(samp, site) ==
    Frac(100 * samp.mod_cov[site[1]][site[2]], CovAt(samp, site))

\* the sites of a sequence visited before the first one of zero coverage,
\* and the coverage counts divided by (a 0 among them: ZeroDivisionError)
RECURSIVE DividedPrefix(_, _)
DividedPrefix(samp, sites) ==
    IF sites = <<>> \/ CovAt(samp, Head(sites)) = 0 THEN <<>>
    ELSE <<Head(sites)>> \o DividedPrefix(samp, Tail(sites))

Divisors(samp, sites) ==
    LET k == Len(DividedPrefix(samp, sites))
    IN {CovAt(samp, sites[i]) : i \in 1..Min(k + 1, Len(sites))}

PctArray(samp, sites) == [i \in 1..Len(sites) |-> PctMod(samp, sites[i])]

NoArrays(err) ==
    [err |-> err, pos_in |-> <<>>, neg_in |-> <<>>, mod_sites |-> None,
     ctrl_sites |-> None, used |-> {}, divisors |-> {}]

\* lines 64-83: gt_data is None
ControlArrays(mod, ctrl, valid_pos, ignore_strand) ==
    LET vp == IF valid_pos = None THEN None
              ELSE Some(parse_beds(valid_pos[1], ignore_strand))
        mts == IF vp = None THEN mod.test_sites
               ELSE RestrictSites(mod.test_sites, vp[1])
        ms == SitesOf(mod.ctgs, mts)
        mdiv == Divisors(mod, ms)
    IN IF vp # None /\ ctrl = None
       THEN [NoArrays("AttributeError") EXCEPT !.mod_sites = Some(mts)]
       ELSE IF 0 \in mdiv
       THEN [NoArrays("ZeroDivisionError") EXCEPT
               !.mod_sites = Some(mts), !.divisors = mdiv,
               !.ctrl_sites = IF vp = None \/ ctrl = None THEN None
                              ELSE Some(RestrictSites(ctrl[1].test_sites, vp[1]))]
       ELSE IF ctrl = None
       THEN [NoArrays("AttributeError") EXCEPT
               !.mod_sites = Some(mts), !.divisors = mdiv]
       ELSE LET cts == IF vp = None THEN ctrl[1].test_sites
                       ELSE RestrictSites(ctrl[1].test_sites, vp[1])
                cs == SitesOf(ctrl[1].ctgs, cts)
                cdiv == Divisors(ctrl[1], cs)
            IN IF 0 \in cdiv
               THEN [NoArrays("ZeroDivisionError") EXCEPT
                       !.mod_sites = Some(mts), !.ctrl_sites = Some(cts),
                       !.divisors = mdiv \cup cdiv]
               ELSE [err |-> "", pos_in |-> PctArray(mod, ms),
                     neg_in |-> PctArray(ctrl[1], cs),
                     mod_sites |-> Some(mts), ctrl_sites |-> Some(cts),
                     used |-> {ms[i] : i \in 1..Len(ms)},
                     divisors |-> mdiv \cup cdiv]

\* lines 86-97: the ground-truth records with counts in the sample, as
\* <<ctg, pos, is_mod>> in the order the loops visit them
RECURSIVE GtMatchedIn(_, _, _)
GtMatchedIn(samp, ctg, pos_is_mod) ==
    IF pos_is_mod = <<>> THEN <<>>
    ELSE LET r == Head(pos_is_mod)
         IN (IF r[1] \in DOMAIN samp.cov[ctg] /\ r[1] \in DOMAIN samp.mod_cov[ctg]
             THEN <<<<ctg, r[1], r[2]>>>> ELSE <<>>)
            \o GtMatchedIn(samp, ctg, Tail(pos_is_mod))

RECURSIVE GtMatched(_, _, _)
GtMatched(samp, gt, ctgs) ==
    IF ctgs = <<>> THEN <<>>
    ELSE LET ctg == Head(ctgs)
         IN (IF ctg \in DOMAIN samp.cov /\ ctg \in DOMAIN samp.mod_cov
             THEN GtMatchedIn(samp, ctg, gt.data[ctg]) ELSE <<>>)
            \o GtMatched(samp, gt, Tail(ctgs))

\* lines 84-103: gt_data is given
GroundTruthArrays(mod, gt) ==
    LET matched == GtMatched(mod, gt, gt.order)
        sites == [i \in 1..Len(matched) |-> <<matched[i][1], matched[i][2]>>]
        done == DividedPrefix(mod, sites)
        div == Divisors(mod, sites)
        isPos(i) == matched[i][3]
        posIdx == SelectSeq([i \in 1..Len(sites) |-> i], LAMBDA i : isPos(i))
        negIdx == SelectSeq([i \in 1..Len(sites) |-> i], LAMBDA i : ~isPos(i))
    IN IF 0 \in div
       THEN [NoArrays("ZeroDivisionError") EXCEPT
               !.used = {done[i] : i \in 1..Len(done)}, !.divisors = div]
       ELSE [err |-> "",
             pos_in |-> [j \in 1..Len(posIdx) |-> PctMod(mod, sites[posIdx[j]])],
             neg_in |-> [j \in 1..Len(negIdx) |-> PctMod(mod, sites[negIdx[j]])],
             mod_sites |-> None, ctrl_sites |-> None,
             used |-> {sites[i] : i \in 1..Len(sites)},
             divisors |-> div]

---------------------------------------------------------------------------
(* compute_val_metrics: class balancing, lines 105-111 *)

\* np.random.choice(arr, n, replace=False): n entries of arr at distinct
\* indices, in any order
Choice(arr, n) ==
    {[i \in 1..n |-> arr[f[i]]] :
        f \in {g \in [1..n -> 1..Len(arr)] :
                 \A i, j \in 1..n : i # j => g[i] # g[j]}}

\* the variant that samples the shorter array instead of the longer one
BalanceLonger(balance_classes, pos, neg) ==
    IF ~balance_classes THEN {<<pos, neg>>}
    ELSE IF Len(pos) > Len(neg)
    THEN {<<pos, n>> : n \in Choice(neg, Len(neg))}
    ELSE {<<pos, neg>>}

Balance(balance_classes, pos, neg) ==
    IF ~balance_classes THEN {<<pos, neg>>}
    ELSE IF Len(pos) > Len(neg)
    THEN {<<p, neg>> : p \in Choice(pos, Len(neg))}
    ELSE IF Len(pos) < Len(neg)
    THEN {<<pos, n>> : n \in Choice(neg, Len(pos))}
    ELSE {<<pos, neg>>}

\* the variant that takes one empty class for an empty input
AnyEmpty(pos, neg) == Len(pos) = 0 \/ Len(neg) = 0

\* lines 112-113: all_pct_mod.shape[0] == 0
AllEmpty(pos, neg) == Len(pos \o neg) = 0

---------------------------------------------------------------------------
(* sklearn.metrics.precision_recall_curve, called on line 120 *)

\* the entries of arr that are >= theta
CountGE(arr, theta) ==
    Cardinality({i \in 1..Len(arr) : ~Less(arr[i], theta)})

RECURSIVE SortFracs(_)
SortFracs(S) ==
    IF S = {} THEN <<>>
    ELSE LET m == CHOOSE x \in S : \A y \in S : ~Less(y, x)
         IN <<m>> \o SortFracs(S \ {m})

\* The curve over the distinct values as thresholds, in increasing order,
\* closed by the point precision 1, recall 0, which has no threshold.
\* Releases of the library differ in two places, and legacy chooses: the
\* older ones drop the thresholds below the highest one of full recall and
\* leave recall NaN when there is no positive label, the newer ones keep
\* every threshold and set recall to 1.
precision_recall_curve(pos, neg, legacy) ==
    LET all == pos \o neg
        P == Len(pos)
        D == {all[i] : i \in 1..Len(all)}
        full == {t \in D : CountGE(pos, t) = P}
        kept == IF legacy
                THEN {t \in D : \A u \in full : ~Less(t, u)}
                ELSE D
        th == SortFracs(kept)
        prec(t) == <<CountGE(pos, t), CountGE(all, t)>>
        rec(t) == IF P = 0
                  THEN (IF legacy THEN NaN ELSE <<1, 1>>)
                  ELSE <<CountGE(pos, t), P>>
    IN [precision |-> [i \in 1..Len(th) |-> prec(th[i])] \o << <<1, 1>> >>,
        recall |-> [i \in 1..Len(th) |-> rec(th[i])] \o << <<0, 1>> >>,
        thresh |-> th]

---------------------------------------------------------------------------
(* compute_val_metrics: optimal F1, lines 121-127 *)

\* prec_recall_sum[i] > 0 (a comparison with NaN is false)
SumPositive(p, r) ==
    ~IsNaN(p) /\ ~IsNaN(r) /\ p[1] * r[2] + r[1] * p[2] > 0

\* 2 * p * r / (p + r), where p + r > 0
F1Of(p, r) == Frac(2 * p[1] * r[1], p[1] * r[2] + r[1] * p[2])

\* np.where(prec_recall_sum > 0): the indices kept, in increasing order
ValidIdx(curve) ==
    SelectSeq([i \in 1..Len(curve.precision) |-> i],
              LAMBDA i : SumPositive(curve.precision[i], curve.recall[i]))

\* np.argmax: the first index of a largest entry
ArgMax(f) ==
    CHOOSE i \in 1..Len(f) :
        /\ \A j \in 1..Len(f) : ~Less(f[i], f[j])
        /\ \A j \in 1..(i - 1) : Less(f[j], f[i])

\* lines 121-127; indices are one more than numpy's.  err is "IndexError"
\* when optim_f1_idx is past the end of thresh.
OptimalF1(curve) ==
    LET valid_idx == ValidIdx(curve)
        all_f1 == [k \in 1..Len(valid_idx) |->
                     F1Of(curve.precision[valid_idx[k]],
                          curve.recall[valid_idx[k]])]
        optim_f1_idx == ArgMax(all_f1)
    IN IF optim_f1_idx > Len(curve.thresh)
       THEN [err |-> "IndexError", optim_f1_idx |-> optim_f1_idx,
             optim_f1 |-> all_f1[optim_f1_idx], optim_thresh |-> NaN]
       ELSE [err |-> "", optim_f1_idx |-> optim_f1_idx,
             optim_f1 |-> all_f1[optim_f1_idx],
             optim_thresh |-> curve.thresh[optim_f1_idx]]

---------------------------------------------------------------------------
(* average_precision_score (line 128) and roc_curve, auc (lines 130-131) *)

FracAdd(x, y) ==
    IF IsNaN(x) \/ IsNaN(y) THEN NaN
    ELSE Frac(x[1] * y[2] + y[1] * x[2], x[2] * y[2])

FracMul(x, y) ==
    IF IsNaN(x) \/ IsNaN(y) THEN NaN ELSE Frac(x[1] * y[1], x[2] * y[2])

\* x - y, where x >= y
FracSub(x, y) ==
    IF IsNaN(x) \/ IsNaN(y) THEN NaN
    ELSE Frac(x[1] * y[2] - y[1] * x[2], x[2] * y[2])

\* the sum over the recall steps of (step in recall) * precision
RECURSIVE StepSum(_, _)
StepSum(curve, i) ==
    IF i > Len(curve.thresh) THEN <<0, 1>>
    ELSE FracAdd(FracMul(FracSub(curve.recall[i], curve.recall[i + 1]),
                         curve.precision[i]),
                 StepSum(curve, i + 1))

average_precision_score(pos, neg, legacy) ==
    StepSum(precision_recall_curve(pos, neg, legacy), 1)

\* twice the trapezoid sum of the points (fps, tps) from the highest
\* threshold (index Len(th)) down to index i, started at (0, 0)
RECURSIVE Trapezoids(_, _, _, _)
Trapezoids(pos, neg, th, i) ==
    IF i > Len(th) THEN 0
    ELSE LET fp == CountGE(neg, th[i])
             tp == CountGE(pos, th[i])
             fp0 == IF i = Len(th) THEN 0 ELSE CountGE(neg, th[i + 1])
             tp0 == IF i = Len(th) THEN 0 ELSE CountGE(pos, th[i + 1])
         IN (fp - fp0) * (tp + tp0) + Trapezoids(pos, neg, th, i + 1)

\* auc(fpr, tpr) of roc_curve: NaN when a class is empty
roc_auc(pos, neg) ==
    LET all == pos \o neg
        th == SortFracs({all[i] : i \in 1..Len(all)})
    IN IF Len(pos) = 0 \/ Len(neg) = 0 THEN NaN
       ELSE Frac(Trapezoids(pos, neg, th, 1), 2 * Len(pos) * Len(neg))

---------------------------------------------------------------------------
(* compute_val_metrics *)

\* lines 117-137: the report line of a non-empty comparison, or the
\* exception raised on the way
MetricResult(pos, neg, legacy) ==
    LET opt == OptimalF1(precision_recall_curve(pos, neg, legacy))
    IN [err |-> opt.err, optim_f1_idx |-> opt.optim_f1_idx,
        optim_f1 |-> opt.optim_f1, optim_thresh |-> opt.optim_thresh,
        avg_prcn |-> average_precision_score(pos, neg, legacy),
        roc_auc |-> roc_auc(pos, neg),
        n_mod |-> Len(pos), n_ctrl |-> Len(neg)]

NoCall ==
    [basis |-> "none", samp_name |-> "", valid_pos_fn |-> None, index |-> 0,
     err |-> "", outcome |-> "none",
     pos_in |-> <<>>, neg_in |-> <<>>, pos |-> <<>>, neg |-> <<>>,
     mod_sites |-> None, ctrl_sites |-> None, used |-> {}, divisors |-> {}]

\* What one call can do: the record kept in last, the lines it writes
\* and the pages it saves.  An exception leaves the function at once.
\*   saved: pages saved before plotting fails (3: plotting succeeds)
CallOutcomes(mod, ctrl, gt, balance_classes, ignore_strand, samp_name, valid_pos_fn, legacy) ==
    LET valid_pos == IF valid_pos_fn = None THEN None
                     ELSE Some(args.files[valid_pos_fn[1]])
        arrs == IF gt = None
                THEN ControlArrays(mod, ctrl, valid_pos, ignore_strand)
                ELSE GroundTruthArrays(mod, gt[1])
        base == [NoCall EXCEPT
                   !.basis = IF gt # None THEN "ground_truth"
                             ELSE IF ctrl # None THEN "control" ELSE "none",
                   !.samp_name = samp_name, !.valid_pos_fn = valid_pos_fn,
                   !.err = arrs.err,
                   !.pos_in = arrs.pos_in, !.neg_in = arrs.neg_in,
                   !.mod_sites = arrs.mod_sites, !.ctrl_sites = arrs.ctrl_sites,
                   !.used = arrs.used, !.divisors = arrs.divisors]
    IN IF arrs.err # ""
       THEN {[call |-> [base EXCEPT !.outcome = "raised"],
              lines |-> <<>>, saved |-> 0]}
       ELSE UNION {
              LET pos == b[1]
                  neg == b[2]
                  bal == [base EXCEPT !.pos = pos, !.neg = neg]
              IN IF AllEmpty(pos, neg)
                 THEN {[call |-> [bal EXCEPT !.outcome = "skipped"],
                        lines |-> <<>>, saved |-> 0]}
                 ELSE LET m == MetricResult(pos, neg, legacy)
                          line == [samp_name |-> samp_name,
                                   optim_f1 |-> m.optim_f1,
                                   optim_thresh |-> m.optim_thresh,
                                   avg_prcn |-> m.avg_prcn,
                                   roc_auc |-> m.roc_auc,
                                   n_mod |-> m.n_mod, n_ctrl |-> m.n_ctrl]
                      IN IF m.err # ""
                         THEN {[call |-> [bal EXCEPT !.outcome = "raised",
                                                     !.err = m.err],
                                lines |-> <<>>, saved |-> 0]}
                         ELSE {[call |-> [bal EXCEPT
                                   !.outcome = IF k = 3 THEN "reported"
                                               ELSE "raised",
                                   !.err = IF k = 3 THEN "" ELSE "RenderError"],
                                 lines |-> <<line>>, saved |-> k] : k \in 0..3}
              : b \in Balance(balance_classes, arrs.pos_in, arrs.neg_in)}

---------------------------------------------------------------------------
(* main *)

IdleEngine ==
    [phase |-> "idle", positive_values |-> <<>>, negative_values |-> <<>>,
     balance_classes |-> FALSE, legacy |-> FALSE, pos |-> <<>>, neg |-> <<>>,
     result |-> None]

\* os.path.basename
BaseName(path) == path[2]

\* the default of samp_name
DefaultName == "sample"

BalanceClasses == ~args.allow_unbalance_classes

IgnoreStrand == args.strand_offset # None

\* the state main starts in, whatever the command line
InitMain ==
    /\ pc = "start"
    /\ mod_samp = None
    /\ ctrl_samp = None
    /\ all_gt_data = None
    /\ idx = 0
    /\ report = <<>>
    /\ pages = 0
    /\ closed = FALSE
    /\ last = NoCall
    /\ engine = IdleEngine

\* lines 223-231: ctrl_samp after the branch on the control files
CtrlSampOf ==
    IF args.control_bed_methyl_files # None /\ args.ground_truth_csvs # None
    THEN Some(parse_mod_sample(args.control_bed_methyl_files[1],
                               args.strand_offset, args.coverage_threshold))
    ELSE None

\* lines 215-243: the outputs are opened, the samples and the ground truth
\* parsed; without control and ground truth the run exits with status 1
Setup ==
    /\ pc = "start"
    /\ mod_samp' = Some(parse_mod_sample(args.modified_bed_methyl_files,
                                         args.strand_offset,
                                         args.coverage_threshold))
    /\ ctrl_samp' = CtrlSampOf
    /\ all_gt_data' =
         IF args.control_bed_methyl_files = None /\ args.ground_truth_csvs # None
         THEN Some(parse_ground_truth_data(args.ground_truth_csvs[1],
                                           args.files))
         ELSE None
    /\ args' =
         IF args.control_bed_methyl_files = None /\ args.ground_truth_csvs # None
         THEN [args EXCEPT !.valid_positions = None]
         ELSE args
    /\ pc' = IF args.control_bed_methyl_files = None
                /\ args.ground_truth_csvs = None
             THEN "exit1" ELSE "compare"
    /\ UNCHANGED <<idx, report, pages, closed, last, engine>>

\* the effect of one call of compute_val_metrics on main's state: an
\* exception is caught nowhere and ends the run
Call(o) ==
    /\ last' = [o.call EXCEPT !.index = idx + 1]
    /\ report' = report \o o.lines
    /\ pages' = pages + o.saved
    /\ idx' = IF o.call.outcome = "raised" THEN idx ELSE idx + 1
    /\ pc' = IF o.call.outcome = "raised" THEN "crashed" ELSE "compare"
    /\ UNCHANGED <<args, mod_samp, ctrl_samp, all_gt_data, closed, engine>>

\* lines 245-251: one pass of the loop over the valid-position files; the
\* file is read inside the call
CompareValidPositions ==
    /\ pc = "compare"
    /\ args.valid_positions # None
    /\ idx < Len(args.valid_positions[1])
    /\ \E legacy \in BOOLEAN :
         \E o \in CallOutcomes(mod_samp[1], ctrl_samp, None, BalanceClasses,
                               IgnoreStrand,
                               BaseName(args.valid_positions[1][idx + 1]),
                               Some(args.valid_positions[1][idx + 1]), legacy) :
            Call(o)

\* lines 252-257: one pass of the loop over the ground-truth files
CompareGroundTruth ==
    /\ pc = "compare"
    /\ args.valid_positions = None
    /\ all_gt_data # None
    /\ idx < Len(all_gt_data[1])
    /\ \E legacy \in BOOLEAN :
         \E o \in CallOutcomes(mod_samp[1], ctrl_samp,
                               Some(all_gt_data[1][idx + 1].gt_data),
                               BalanceClasses, IgnoreStrand,
                               BaseName(all_gt_data[1][idx + 1].gt_csv), None,
                               legacy) :
            Call(o)

\* lines 258-261: the single comparison against the control sample
CompareControl ==
    /\ pc = "compare"
    /\ args.valid_positions = None
    /\ all_gt_data = None
    /\ idx = 0
    /\ \E legacy \in BOOLEAN :
         \E o \in CallOutcomes(mod_samp[1], ctrl_samp, None, BalanceClasses,
                               IgnoreStrand, DefaultName, None, legacy) :
            Call(o)

\* the comparisons main has to make
BatchSize ==
    IF args.valid_positions # None THEN Len(args.valid_positions[1])
    ELSE IF all_gt_data # None THEN Len(all_gt_data[1])
    ELSE 1

\* lines 263-265
Close ==
    /\ pc = "compare"
    /\ idx = BatchSize
    /\ closed' = TRUE
    /\ pc' = "done"
    /\ UNCHANGED <<args, mod_samp, ctrl_samp, all_gt_data, idx, report, pages,
                   last, engine>>

Next ==
    \/ Setup
    \/ CompareValidPositions
    \/ CompareGroundTruth
    \/ CompareControl
    \/ Close

\* args is a command line over the given file contents, with any choice of
\* the options.  The bed-methyl options hold the lines of their files, the
\* other two the paths given; files holds the contents of the files at
\* these paths.
ArgsOver(Mods, Ctrls, Gts, Vps, Threshs, Offsets) ==
    \E m \in Mods, c \in Ctrls, g \in Gts, v \in Vps, t \in Threshs,
       o \in Offsets, u \in BOOLEAN :
        args = [modified_bed_methyl_files |-> m,
                control_bed_methyl_files |-> c,
                ground_truth_csvs |-> g.paths,
                valid_positions |-> v.paths,
                files |-> Merge(g.files, v.files),
                coverage_threshold |-> t,
                strand_offset |-> o,
                allow_unbalance_classes |-> u]

---------------------------------------------------------------------------
(* Run configurations: every combination of options over small inputs *)

\* a small command line of every shape, for each pass of main
CoreSlot == <<"chr1", "+", 1>>

CoreMod == << <<"chr1", "+", 1, 1, 1>> >>

Gt1 == <<"in", "gt1.csv">>

Vp1 == <<"in", "vp1.bed">>

CoreArgs ==
    ArgsOver({CoreMod}, {None, Some(CoreMod)},
             {NoFiles} \cup FilesOver(GtPaths, Gt1,
                                      {<< <<"chr1", "+", 1, "Y">> >>}, 1),
             {NoFiles} \cup FilesOver(VpPaths, Vp1, {{CoreSlot}}, 1),
             {1}, {None})

RunSlots == {CoreSlot}

RunMods == BedMethylsOn(RunSlots, CovPairs, 1)

RunGtFiles == SeqsUpTo({<<"chr1", ".", 1, "Y">>, <<"chr1", "+", 1, "no">>}, 1)

RunArgs ==
    ArgsOver(RunMods,
             {None} \cup {Some(b) : b \in BedMethylsOn(RunSlots, ReadPairs, 1)},
             {NoFiles} \cup FilesOver(GtPaths, Gt1, RunGtFiles, MaxFiles),
             {NoFiles} \cup FilesOver(VpPaths, Vp1, SUBSET RunSlots, MaxFiles),
             0..MaxThresh, StrandOffsets)

Init == RunArgs /\ InitMain

Spec == Init /\ [][Next]_vars

---------------------------------------------------------------------------
(* Sample assembly: every bed-methyl input of at most MaxSites lines *)

SampleArgs ==
    ArgsOver(BedMethylsOn(BedSlots, CovPairs, MaxSites), {None}, {NoFiles},
             {NoFiles}, 0..MaxThresh, StrandOffsets)

InitSample == (SampleArgs \/ CoreArgs) /\ InitMain

SpecSample == InitSample /\ [][Next]_vars

---------------------------------------------------------------------------
(* Control-based comparisons restricted to valid positions *)

ControlSlots == {<<"chr1", "+", 1>>, <<"chr1", "-", 1>>}

ControlBeds == {{}, {<<"chr1", "+", 1>>}, ControlSlots}

ControlArgs ==
    ArgsOver(BedMethylsOn(ControlSlots, ReadPairs, MaxSites),
             {Some(<<>>), Some(CoreMod)},
             FilesOver(GtPaths, Gt1, {<<>>}, 1),
             FilesOver(VpPaths, Vp1, ControlBeds, MaxFiles),
             0..MaxThresh, StrandOffsets)

InitControl == (ControlArgs \/ CoreArgs) /\ InitMain

SpecControl == InitControl /\ [][Next]_vars

---------------------------------------------------------------------------
(* Ground-truth comparisons: one csv of at most MaxRecs lines *)

GroundTruthSlots ==
    {<<"chr1", "+", 1>>, <<"chr1", "-", 1>>, <<"chr1", "-", 2>>}

\* a ground-truth line after split(','): <<chrm, strand, pos, is_mod>>
GroundTruthLines == Chrms \X StrandSymbols \X {1} \X IsModTokens

GroundTruthArgs ==
    ArgsOver(BedMethylsOn(GroundTruthSlots, ReadPairs, MaxSites), {None},
             FilesOver(GtPaths, Gt1, SeqsUpTo(GroundTruthLines, MaxRecs), 1),
             {NoFiles}, 0..MaxThresh, StrandOffsets)

InitGroundTruth == (GroundTruthArgs \/ CoreArgs) /\ InitMain

SpecGroundTruth == InitGroundTruth /\ [][Next]_vars

---------------------------------------------------------------------------
(* The metric computation of lines 105-137 on given value arrays *)

Vals(s) == [i \in 1..Len(s) |-> <<s[i], 1>>]

EngineValues == {0, 50, 100}

EngineArrays == {Vals(s) : s \in SeqsUpTo(EngineValues, MaxLen)}

\* the constructed examples of the specification
ExampleInputs ==
    {<<Vals(<<80, 90, 95>>), Vals(<<5, 10, 60>>)>>,
     <<Vals(<<80, 90, 95>>), Vals(<<5, 10, 85>>)>>}

InitMetric ==
    /\ \E io \in (EngineArrays \X EngineArrays) \cup ExampleInputs :
         \E b, l \in BOOLEAN :
            engine = [IdleEngine EXCEPT
                        !.phase = "input", !.positive_values = io[1],
                        !.negative_values = io[2], !.balance_classes = b,
                        !.legacy = l]
    /\ pc = "engine"
    /\ args = None
    /\ mod_samp = None
    /\ ctrl_samp = None
    /\ all_gt_data = None
    /\ idx = 0
    /\ report = <<>>
    /\ pages = 0
    /\ closed = FALSE
    /\ last = NoCall

\* lines 105-111
BalanceStep ==
    /\ engine.phase = "input"
    /\ \E b \in Balance(engine.balance_classes, engine.positive_values,
                        engine.negative_values) :
         engine' = [engine EXCEPT !.phase = "balanced",
                                  !.pos = b[1], !.neg = b[2]]
    /\ UNCHANGED mainVars

\* lines 112-116
SkipStep ==
    /\ engine.phase = "balanced"
    /\ AllEmpty(engine.pos, engine.neg)
    /\ engine' = [engine EXCEPT !.phase = "skipped"]
    /\ UNCHANGED mainVars

\* lines 117-137
MetricStep ==
    /\ engine.phase = "balanced"
    /\ ~AllEmpty(engine.pos, engine.neg)
    /\ engine' = [engine EXCEPT
                    !.phase = "reported",
                    !.result = Some(MetricResult(engine.pos, engine.neg,
                                                 engine.legacy))]
    /\ UNCHANGED mainVars

NextMetric == BalanceStep \/ SkipStep \/ MetricStep

SpecMetric == InitMetric /\ [][NextMetric]_vars

---------------------------------------------------------------------------
(* Properties *)

Called == last.outcome # "none"

\* the arrays of the latest call were extracted (no exception before line 105)
Extracted == Called /\ last.err \in {"", "RenderError"}

\* the sites <<ctg, pos>> of a mapping ctg -> set of positions
SiteSet(m) == {<<c, p>> : c \in DOMAIN m, p \in UNION {m[d] : d \in DOMAIN m}}
              \cap {x \in (DOMAIN m) \X UNION {m[d] : d \in DOMAIN m} :
                      x[2] \in m[x[1]]}

\* the positions of coverage >= t, from the coverage mapping alone
Covered(cov, t) ==
    {x \in SiteSet([c \in DOMAIN cov |-> DOMAIN cov[c]]) :
        cov[x[1]][x[2]] >= t}

\* C1: whenever control files are supplied, main assembles the control
\* Sample from them with the run's threshold and strand offset, loads no
\* ground truth, and every comparison it makes is control-based
C1_ControlTakesPriority ==
    (args.control_bed_methyl_files # None /\ pc \in {"compare", "done", "crashed"})
    => /\ ctrl_samp # None
       /\ ctrl_samp[1].cov =
            parse_bed_methyls(args.control_bed_methyl_files[1],
                              args.strand_offset)[1]
       /\ SiteSet(ctrl_samp[1].test_sites) =
            Covered(ctrl_samp[1].cov, args.coverage_threshold)
       /\ all_gt_data = None
       /\ (Called => last.basis = "control")

\* the combined length, after balancing, of the i-th comparison of the batch
CombinedLen(i) ==
    LET a == IF args.valid_positions # None
             THEN ControlArrays(mod_samp[1], ctrl_samp,
                                Some(args.files[args.valid_positions[1][i]]),
                                IgnoreStrand)
             ELSE IF all_gt_data # None
             THEN GroundTruthArrays(mod_samp[1], all_gt_data[1][i].gt_data)
             ELSE ControlArrays(mod_samp[1], ctrl_samp, None, IgnoreStrand)
    IN IF BalanceClasses THEN 2 * Min(Len(a.pos_in), Len(a.neg_in))
       ELSE Len(a.pos_in) + Len(a.neg_in)

\* C2: a comparison with an empty combined array is skipped without an
\* exception, a line or a page, and the batch goes on: after idx comparisons
\* the report has one line, and the pdf three pages, for each of them with a
\* non-empty combined array, and a run that ends has made every comparison
C2_EmptyComparisonSkipped ==
    /\ (Called /\ Len(last.pos \o last.neg) = 0 /\ last.err = "")
          => last.outcome = "skipped" /\ pc \in {"compare", "done"}
    /\ pc \in {"compare", "done"}
          => /\ Len(report) = Cardinality({i \in 1..idx : CombinedLen(i) > 0})
             /\ pages = 3 * Len(report)
    /\ pc = "done" => idx = BatchSize /\ closed

\* a batch of two whose first comparison was skipped and whose second wrote
\* its line
C2_Witness ==
    /\ pc = "done"
    /\ BatchSize = 2
    /\ Len(report) = 1
    /\ CombinedLen(1) = 0
    /\ report[1].samp_name =
         BaseName(IF args.valid_positions # None
                  THEN args.valid_positions[1][2]
                  ELSE all_gt_data[1][2].gt_csv)

\* C6: a failure of plot rendering does not end the run
C6_RenderFailureDoesNotAbort ==
    last.err = "RenderError" => pc # "crashed"

\* C8: no call divides by a coverage count of zero
C8_NoDivisionByZero == 0 \notin last.divisors

\* C9: in a ground-truth comparison every position that contributes a value
\* is a test site of the modified Sample
C9_GroundTruthUsesTestSites ==
    last.basis = "ground_truth"
    => last.used \subseteq SiteSet(mod_samp[1].test_sites)

\* C4: test_sites holds, per contig, exactly the positions of coverage >= t;
\* a higher threshold gives a subset; an empty coverage mapping gives empty
\* test_sites, and the sample is assembled without failing
C4_TestSitesByThreshold ==
    pc # "start"
    => /\ mod_samp # None
       /\ LET s == mod_samp[1]
              t == args.coverage_threshold
          IN /\ DOMAIN s.test_sites = DOMAIN s.cov
             /\ \A ctg \in DOMAIN s.cov :
                  /\ s.test_sites[ctg] \subseteq DOMAIN s.cov[ctg]
                  /\ \A p \in DOMAIN s.cov[ctg] :
                       p \in s.test_sites[ctg] <=> s.cov[ctg][p] >= t
             /\ \A t2 \in (t + 1)..(MaxThresh + 1) :
                  SiteSet(parse_mod_sample(args.modified_bed_methyl_files,
                                           args.strand_offset, t2).test_sites)
                    \subseteq SiteSet(s.test_sites)
             /\ (DOMAIN s.cov = {} => SiteSet(s.test_sites) = {})

\* a sample with a tested position and a position below the threshold
C4_Witness ==
    /\ mod_samp # None
    /\ args.coverage_threshold >= 1
    /\ SiteSet(mod_samp[1].test_sites) # {}
    /\ SiteSet(mod_samp[1].test_sites) # Covered(mod_samp[1].cov, 0)

\* C5: with a valid-position file, the test sites used for the modified and
\* the control Sample are the original test sites that lie in the
\* valid-position mapping, contigs absent from the mapping are dropped, and
\* the Samples main holds keep their test sites
C5_ValidPositionsRestrict ==
    (Called /\ last.valid_pos_fn # None /\ last.mod_sites # None
       /\ last.ctrl_sites # None)
    => LET vm == parse_beds(args.files[last.valid_pos_fn[1]],
                            IgnoreStrand)
           inVm(x) == x[1] \in DOMAIN vm /\ x[2] \in vm[x[1]]
           origM == Covered(mod_samp[1].cov, args.coverage_threshold)
           origC == Covered(ctrl_samp[1].cov, args.coverage_threshold)
       IN /\ SiteSet(last.mod_sites[1]) = {x \in origM : inVm(x)}
          /\ SiteSet(last.ctrl_sites[1]) = {x \in origC : inVm(x)}
          /\ DOMAIN last.mod_sites[1] \subseteq DOMAIN vm
          /\ DOMAIN last.ctrl_sites[1] \subseteq DOMAIN vm
          /\ (last.err = "" => last.used = {x \in origM : inVm(x)})
          /\ SiteSet(mod_samp[1].test_sites) = origM
          /\ SiteSet(ctrl_samp[1].test_sites) = origC

\* the second comparison of a batch over two different files, restricting
\* the modified Sample to a part of its test sites
C5_Witness ==
    /\ last.index = 2
    /\ last.valid_pos_fn = Some(args.valid_positions[1][2])
    /\ last.err = ""
    /\ args.files[args.valid_positions[1][1]]
         # args.files[args.valid_positions[1][2]]
    /\ SiteSet(last.mod_sites[1]) # {}
    /\ SiteSet(last.mod_sites[1]) # SiteSet(mod_samp[1].test_sites)
    /\ SiteSet(last.ctrl_sites[1]) # {}

\* the csv of the latest ground-truth comparison
GtFile == args.files[all_gt_data[1][last.index].gt_csv]

StrandOf(sym) == IF sym = "+" THEN 1 ELSE IF sym = "-" THEN -1 ELSE NoStrand

HasCounts(key, pos) ==
    key \in DOMAIN mod_samp[1].cov /\ pos \in DOMAIN mod_samp[1].cov[key]

\* a record is matched when the Sample holds counts at its position under
\* the key of its contig and strand
KeyMatches(l) == HasCounts(<<l[1], StrandOf(l[2])>>, l[3])

\* a '+' or '-' record is matched as above when strands are kept apart; any
\* other record when the Sample holds counts at its contig and position
\* under any strand key
AnyStrandMatches(l) ==
    IF l[2] \in {"+", "-"}
    THEN args.strand_offset = None /\ KeyMatches(l)
    ELSE \E key \in DOMAIN mod_samp[1].cov : key[1] = l[1] /\ HasCounts(key, l[3])

Labelled(l, is_mod) == (Lower(l[4]) \in IS_MOD_VALS) = is_mod

\* C7 as amended: a record contributes exactly when the Sample holds counts
\* at its position under <<contig, strand>>.  A record of strand '.' (or of
\* an unknown symbol) therefore matches only a Sample collapsed by a strand
\* offset, a record of strand '+' or '-' only a Sample assembled without
\* one, and an unmatched record adds nothing to either array
C7_RecordMatchedUnderItsKey ==
    (last.basis = "ground_truth" /\ Extracted)
    => /\ Len(last.pos_in) =
            Cardinality({i \in 1..Len(GtFile) :
                           KeyMatches(GtFile[i]) /\ Labelled(GtFile[i], TRUE)})
       /\ Len(last.neg_in) =
            Cardinality({i \in 1..Len(GtFile) :
                           KeyMatches(GtFile[i]) /\ Labelled(GtFile[i], FALSE)})
       /\ \A i \in 1..Len(GtFile) :
            KeyMatches(GtFile[i])
            => (GtFile[i][2] \in {"+", "-"} <=> args.strand_offset = None)

\* a record of strand '.' left unmatched by a strand-partitioned Sample that
\* has counts at the record's contig and position
C7_Witness ==
    /\ last.basis = "ground_truth"
    /\ Extracted
    /\ args.strand_offset = None
    /\ \E i \in 1..Len(GtFile) :
         /\ GtFile[i][2] = "."
         /\ AnyStrandMatches(GtFile[i])
    /\ last.used = {}

\* C7: a record of strand '.' (or of an unknown symbol) is matched whatever
\* the strand partition of the Sample, a record of strand '+' or '-' only in
\* a strand-aware comparison, and an unmatched record adds nothing
C7_CollapsedRecordAlwaysMatched ==
    (last.basis = "ground_truth" /\ Extracted)
    => /\ Len(last.pos_in) =
            Cardinality({i \in 1..Len(GtFile) :
                           AnyStrandMatches(GtFile[i])
                           /\ Labelled(GtFile[i], TRUE)})
       /\ Len(last.neg_in) =
            Cardinality({i \in 1..Len(GtFile) :
                           AnyStrandMatches(GtFile[i])
                           /\ Labelled(GtFile[i], FALSE)})

\* C3: with balancing both arrays get the length of the shorter input and
\* the array that was not longer is unchanged; without, both are unchanged
C3_BalancedLengths ==
    engine.phase \in {"balanced", "skipped", "reported"}
    => IF engine.balance_classes
       THEN /\ Len(engine.pos) = Min(Len(engine.positive_values),
                                     Len(engine.negative_values))
            /\ Len(engine.neg) = Len(engine.pos)
            /\ (Len(engine.positive_values) <= Len(engine.negative_values)
                  => engine.pos = engine.positive_values)
            /\ (Len(engine.negative_values) <= Len(engine.positive_values)
                  => engine.neg = engine.negative_values)
       ELSE /\ engine.pos = engine.positive_values
            /\ engine.neg = engine.negative_values

\* three positive values sampled down to the length of one negative value
C3_Witness ==
    /\ engine.phase = "balanced"
    /\ engine.balance_classes
    /\ Len(engine.positive_values) = 3
    /\ Len(engine.negative_values) = 1
    /\ engine.pos # SubSeq(engine.positive_values, 1, 1)

\* the curve point the specification selects: the first index of the full
\* sequences with the largest F1 among those with precision + recall > 0
FirstBestIndex(curve) ==
    LET V == {i \in 1..Len(curve.precision) :
                SumPositive(curve.precision[i], curve.recall[i])}
        F(i) == F1Of(curve.precision[i], curve.recall[i])
    IN CHOOSE i \in V : /\ \A j \in V : ~Less(F(i), F(j))
                        /\ \A j \in V : j < i => Less(F(j), F(i))

SelectsFirstBest ==
    LET curve == precision_recall_curve(engine.pos, engine.neg, engine.legacy)
        i == FirstBestIndex(curve)
        r == engine.result[1]
    IN /\ r.err = ""
       /\ i <= Len(curve.thresh)
       /\ ValidIdx(curve)[r.optim_f1_idx] = i
       /\ r.optim_f1 = F1Of(curve.precision[i], curve.recall[i])
       /\ r.optim_thresh = curve.thresh[i]

SeparatesExample ==
    (engine.pos = Vals(<<80, 90, 95>>) /\ engine.neg = Vals(<<5, 10, 60>>))
    => /\ engine.result[1].optim_f1 = <<1, 1>>
       /\ \A i \in 1..3 : ~Less(engine.pos[i], engine.result[1].optim_thresh)
       /\ \A i \in 1..3 : Less(engine.neg[i], engine.result[1].optim_thresh)

\* C10: for every non-empty combined input the reported F1 and threshold
\* are those of the first best point of the full curve, which has a
\* threshold; the example of the specification is separated with F1 = 1
C10_OptimalF1Index ==
    engine.phase = "reported" => SelectsFirstBest /\ SeparatesExample

\* the same, for the inputs with a positive value
OptimalF1IndexWithPositives ==
    (engine.phase = "reported" /\ Len(engine.pos) > 0)
    => SelectsFirstBest /\ SeparatesExample

=============================================================================
